---------------------------- MODULE Spec2Model ----------------------------
(***************************************************************************)
(* A model of nut/ner/ner.py: the two command-line entry points train()   *)
(* and predict(), one statement (or one call) per action.  The tagger,    *)
(* corpus reader and persistence modules are collaborators: each call     *)
(* into them is one action whose outcome (return or raise) is chosen by   *)
(* the environment (Spec).  What happens inside predict()'s call of        *)
(* write_sent_predictions, the greedy decoder, is modelled as the state   *)
(* machine of section 4.4 of the specification (SpecDecode).              *)
(***************************************************************************)
EXTENDS Integers, Sequences, FiniteSets, TLC

VARIABLES
    prog,        \* which entry point runs: "train" or "predict"
    pc,          \* position in the running function
    argv,        \* positional arguments (train: after option parsing)
    options,     \* train: the parsed options
    exitStatus,  \* process exit status; Running while the run is live
    exc,         \* the exception that ended the run, "none" otherwise
    log,         \* calls made and returned so far, in order
    fd, hd,      \* train: the imported feature extractors
    train_reader,\* train: the corpus reader
    aso_model,   \* train: the ASO model returned by compressed_load
    loaded_aso,  \* train: aso_model and heap as compressed_load returned them
    heap,        \* objects referred to by id: id -> content
    model,       \* the tagger (train: created, predict: loaded)
    report,      \* train: the "avg. nnz" lines printed, in 1/10000
    f,           \* predict: the output stream
    opened,      \* predict: the files opened for writing, in order
    closed,      \* predict: the streams closed, in order
    test_reader, \* predict: the corpus reader
    nsent,       \* decoder: sentences taken from the reader so far
    sentence,    \* decoder: the sentence being tagged
    dstate,      \* decoder: "Idle", "Ready", "InProgress" or "Done"
    pos,         \* decoder: index of the next token to tag (0-based)
    history,     \* decoder: the accumulator handed to hd
    tags,        \* decoder: the tags emitted for the current sentence
    hdArgs       \* decoder: the arguments of every hd call of this sentence

vars == <<prog, pc, argv, options, exitStatus, exc, log, fd, hd, train_reader,
          aso_model, loaded_aso, heap, model, report, f, opened, closed,
          test_reader, nsent, sentence, dstate, pos, history, tags, hdArgs>>

trainVars == <<options, fd, hd, train_reader, aso_model, loaded_aso, heap, report>>
predictVars == <<f, opened, closed, test_reader>>
decoderVars == <<nsent, sentence, dstate, pos, history, tags, hdArgs>>

----------------------------------------------------------------------------
(* Bounds of the model *)

MaxTrainArgs == 3      \* positional arguments given to train: 0..MaxTrainArgs
MaxArgs == 4           \* arguments given to predict: 0..MaxArgs
MaxInstances == 2      \* instances in model.dataset: 0..MaxInstances
MaxNnz == 2            \* non-zero features of one instance: 0..MaxNnz
MaxSents == 2          \* sentences the test reader yields: 0..MaxSents
MaxSentLen == 2        \* tokens in one sentence: 0..MaxSentLen
NumWeights == 2        \* weight matrices a loaded model may carry

(* Program constants *)

ImportExitCode == -2   \* sys.exit(-2) in train's ImportError handler
UsageExitCode == -2    \* sys.exit(-2) in predict's usage checks
ParserErrorStatus == 2 \* parser.error(...) exits with status 2
Running == -1          \* exitStatus of a live run
UncaughtStatus == 1    \* status of a run ended by an uncaught exception

\* The exit status the shell sees for sys.exit(code)
ExitStatusOf(code) == code % 256

----------------------------------------------------------------------------
(* Values *)

Langs == {"en", "de"}
Schemes == {"rr09", "de"}
FeatureModules == {"rr09", "nosuch"}
Mincs == {1, 2}
AsoOpts == {"<False>", "", "aso.bin"}
\* the positional arguments of train: f_train, f_model, and any further ones
TrainArgs(n) ==
    [k \in 1..n |-> IF k = 1 THEN "train.txt" ELSE IF k = 2 THEN "model.bin" ELSE "extra.txt"]

\* Python truth of options.aso: the default False and "" are false
Truthy(x) == x \notin {"<False>", ""}

NoId == 0
NoReader == [live |-> FALSE, file |-> "", lang |-> ""]
NoAso == [live |-> FALSE, fd |-> "", hd |-> "", lang |-> "", use_eph |-> FALSE,
          minc |-> 0, vocabulary |-> NoId, tags |-> NoId, fidx_map |-> NoId,
          tidx_map |-> NoId, tag_map |-> NoId]
NoModel == [live |-> FALSE, fd |-> "", hd |-> "", lang |-> "", V |-> NoId,
            T |-> NoId, use_eph |-> FALSE, minc |-> 0, fidx_map |-> NoId,
            tidx_map |-> NoId, tag_map |-> NoId, use_aso |-> FALSE,
            aso_model |-> NoAso, assigned |-> {}, tagseq |-> <<>>, w |-> 0,
            dataset |-> <<>>]

\* A fresh tagger as tagger.GreedySVMTagger(fd, hd, lang=lang) returns it
GreedySVMTagger(fd_, hd_, lang_) ==
    [NoModel EXCEPT !.live = TRUE, !.fd = fd_, !.hd = hd_, !.lang = lang_]

Vocabularies == {{"w=a"}, {"w=a", "w=b"}}

\* The objects an ASO model file holds, at ids 1..5
AsoHeap(voc) == <<voc, {"O", "PER"}, {"f0", "f1"}, {"t0", "t1"}, {"O:0", "PER:1"}>>

AsoModels ==
    { [live |-> TRUE, fd |-> "fd:" \o s, hd |-> "hd:" \o s, lang |-> l,
       use_eph |-> e, minc |-> m, vocabulary |-> 1, tags |-> 2, fidx_map |-> 3,
       tidx_map |-> 4, tag_map |-> 5] :
      s \in Schemes, l \in Langs, e \in BOOLEAN, m \in Mincs }

RECURSIVE SeqsUpTo(_, _)
SeqsUpTo(S, n) ==
    IF n = 0 THEN {<<>>}
    ELSE LET shorter == SeqsUpTo(S, n - 1)
         IN  shorter \cup {Append(s, x) : s \in {t \in shorter : Len(t) = n - 1}, x \in S}

\* model.dataset as train leaves it: the non-zero count of each instance
Datasets == SeqsUpTo(0..MaxNnz, MaxInstances)

RECURSIVE SumSeq(_)
SumSeq(s) == IF s = <<>> THEN 0 ELSE Head(s) + SumSeq(Tail(s))

Count(ev) == Cardinality({k \in 1..Len(log) : log[k] = ev})
Logged(ev) == \E k \in 1..Len(log) : log[k] = ev
Before(a, b) == \A j \in 1..Len(log) : log[j] = b => \E k \in 1..(j - 1) : log[k] = a

----------------------------------------------------------------------------
(* Ending a run *)

\* sys.exit(code), or parser.error: the process ends with the given status
Exit(status) ==
    /\ pc' = "exited"
    /\ exitStatus' = status
    /\ exc' = "SystemExit"

\* an exception nothing catches: traceback, status 1
Raise(e) ==
    /\ pc' = "raised"
    /\ exitStatus' = UncaughtStatus
    /\ exc' = e

Goto(l) == pc' = l /\ UNCHANGED <<exitStatus, exc>>

----------------------------------------------------------------------------
(* train() *)

\* parser.parse_args() and the check of the number of arguments
TrainParseArgs ==
    /\ prog = "train" /\ pc = "parse"
    /\ IF Len(argv) # 2 THEN Exit(ParserErrorStatus) ELSE Goto("import")
    /\ UNCHANGED <<prog, argv, log, model, trainVars, predictVars, decoderVars>>

\* the ImportError handler prints its message and falls through
ImportFallsThrough ==
    /\ prog = "train" /\ pc = "import"
    /\ \/ /\ options.feature_module # "nosuch"
          /\ fd' = "fd:" \o options.feature_module
          /\ hd' = "hd:" \o options.feature_module
          /\ log' = Append(log, "import")
       \/ /\ log' = Append(log, "import_failed")
          /\ UNCHANGED <<fd, hd>>
    /\ Goto("reader")
    /\ UNCHANGED <<prog, argv, options, train_reader, aso_model, loaded_aso, heap,
                   model, report, predictVars, decoderVars>>

\* the try block importing nut.ner.features.<feature_module> and its handler
ImportFeatureModule ==
    /\ prog = "train" /\ pc = "import"
    /\ \E outcome \in {"ok", "ImportError", "AttributeError"} :
         /\ outcome = "ok" => options.feature_module # "nosuch"
         /\ CASE outcome = "ok" ->
                   /\ fd' = "fd:" \o options.feature_module
                   /\ hd' = "hd:" \o options.feature_module
                   /\ log' = Append(log, "import")
                   /\ Goto("reader")
              [] outcome = "ImportError" ->
                   /\ log' = Append(log, "import_failed")
                   /\ Exit(ExitStatusOf(ImportExitCode))
                   /\ UNCHANGED <<fd, hd>>
              [] outcome = "AttributeError" ->
                   /\ options.feature_module # "nosuch"
                   /\ log' = Append(log, "import_failed")
                   /\ Raise("AttributeError")
                   /\ UNCHANGED <<fd, hd>>
    /\ UNCHANGED <<prog, argv, options, train_reader, aso_model, loaded_aso, heap,
                   model, report, predictVars, decoderVars>>

\* train_reader = conll.Conll03Reader(f_train, options.lang)
MakeTrainReader ==
    /\ prog = "train" /\ pc = "reader"
    /\ train_reader' = [live |-> TRUE, file |-> argv[1], lang |-> options.lang]
    /\ log' = Append(log, "reader")
    /\ Goto(IF Truthy(options.aso) THEN "aso_load" ELSE "create")
    /\ UNCHANGED <<prog, argv, options, fd, hd, aso_model, loaded_aso, heap, model,
                   report, predictVars, decoderVars>>

\* aso_model = compressed_load(options.aso)
LoadAsoModel ==
    /\ prog = "train" /\ pc = "aso_load"
    /\ \/ \E a \in AsoModels, voc \in Vocabularies :
            /\ aso_model' = a
            /\ heap' = AsoHeap(voc)
            /\ loaded_aso' = [aso |-> a, heap |-> AsoHeap(voc)]
            /\ log' = Append(log, "load_aso")
            /\ Goto("aso_create")
       \/ /\ log' = Append(log, "load_aso_failed")
          /\ Raise("IOError")
          /\ UNCHANGED <<aso_model, heap, loaded_aso>>
    /\ UNCHANGED <<prog, argv, options, fd, hd, train_reader, model, report,
                   predictVars, decoderVars>>

\* model = tagger.GreedySVMTagger(aso_model.fd, aso_model.hd, lang=aso_model.lang)
CreateAsoTagger ==
    /\ prog = "train" /\ pc = "aso_create"
    /\ model' = GreedySVMTagger(aso_model.fd, aso_model.hd, aso_model.lang)
    /\ log' = Append(log, "create_tagger")
    /\ Goto("chk_eph")
    /\ UNCHANGED <<prog, argv, trainVars, predictVars, decoderVars>>

\* if options.use_eph != aso_model.use_eph: raise Error
CheckUseEph ==
    /\ prog = "train" /\ pc = "chk_eph"
    /\ IF options.use_eph # aso_model.use_eph THEN Raise("Error") ELSE Goto("chk_lang")
    /\ UNCHANGED <<prog, argv, log, model, trainVars, predictVars, decoderVars>>

\* the language of the ASO model is not compared
CheckLangSkipped ==
    /\ prog = "train" /\ pc = "chk_lang"
    /\ Goto("bind_V")
    /\ UNCHANGED <<prog, argv, log, model, trainVars, predictVars, decoderVars>>

\* if options.lang != aso_model.lang: raise Error
CheckLang ==
    /\ prog = "train" /\ pc = "chk_lang"
    /\ IF options.lang # aso_model.lang THEN Raise("Error") ELSE Goto("bind_V")
    /\ UNCHANGED <<prog, argv, log, model, trainVars, predictVars, decoderVars>>

\* one assignment model.<field> = <value>
Assign(at, field, value, next) ==
    /\ prog = "train" /\ pc = at
    /\ model' = [model EXCEPT ![field] = value, !.assigned = @ \cup {field}]
    /\ log' = Append(log, "bind")
    /\ Goto(next)
    /\ UNCHANGED <<prog, argv, trainVars, predictVars, decoderVars>>

\* model.V = copy(aso_model.vocabulary): a new object with the same content
BindVCopy ==
    /\ prog = "train" /\ pc = "bind_V"
    /\ heap' = Append(heap, heap[aso_model.vocabulary])
    /\ model' = [model EXCEPT !.V = Len(heap) + 1, !.assigned = @ \cup {"V"}]
    /\ log' = Append(log, "bind")
    /\ Goto("bind_T")
    /\ UNCHANGED <<prog, argv, options, fd, hd, train_reader, aso_model, loaded_aso,
                   report, predictVars, decoderVars>>

\* model.minc = options.minc
BindMincFromOptions == Assign("bind_minc", "minc", options.minc, "bind_fidx_map")

BindV == Assign("bind_V", "V", aso_model.vocabulary, "bind_T")
BindT == Assign("bind_T", "T", aso_model.tags, "bind_use_eph")
BindUseEph == Assign("bind_use_eph", "use_eph", aso_model.use_eph, "bind_minc")
BindMinc == Assign("bind_minc", "minc", aso_model.minc, "bind_fidx_map")
BindFidxMap == Assign("bind_fidx_map", "fidx_map", aso_model.fidx_map, "bind_tidx_map")
BindTidxMap == Assign("bind_tidx_map", "tidx_map", aso_model.tidx_map, "bind_tag_map")
BindTagMap == Assign("bind_tag_map", "tag_map", aso_model.tag_map, "set_use_aso")
SetUseAso == Assign("set_use_aso", "use_aso", TRUE, "set_aso_model")
SetAsoModel == Assign("set_aso_model", "aso_model", aso_model, "train")

\* model = tagger.GreedySVMTagger(fd, hd, lang=options.lang)
CreateTagger ==
    /\ prog = "train" /\ pc = "create"
    /\ model' = GreedySVMTagger(fd, hd, options.lang)
    /\ log' = Append(log, "create_tagger")
    /\ Goto("feature_extraction")
    /\ UNCHANGED <<prog, argv, trainVars, predictVars, decoderVars>>

\* model.feature_extraction(train_reader, minc=options.minc, use_eph=options.use_eph)
FeatureExtraction ==
    /\ prog = "train" /\ pc = "feature_extraction"
    /\ \/ \E voc \in Vocabularies :
            /\ heap' = Append(Append(heap, voc), {"O", "PER"})
            /\ model' = [model EXCEPT !.V = Len(heap) + 1, !.T = Len(heap) + 2,
                                      !.minc = options.minc,
                                      !.use_eph = options.use_eph]
            /\ log' = Append(log, "feature_extraction")
            /\ Goto("train")
       \/ /\ log' = Append(log, "feature_extraction_failed")
          /\ Raise("IOError")
          /\ UNCHANGED <<heap, model>>
    /\ UNCHANGED <<prog, argv, options, fd, hd, train_reader, aso_model, loaded_aso,
                   report, predictVars, decoderVars>>

\* training that writes a snapshot of the model before it returns
TrainWithSnapshot ==
    /\ prog = "train" /\ pc = "train"
    /\ \E ds \in Datasets, k \in 1..NumWeights :
         /\ model' = [model EXCEPT !.dataset = ds, !.w = k]
         /\ log' = Append(Append(Append(log, "train_call"), "dump"), "train_ret")
         /\ Goto(IF options.stats THEN "describe" ELSE "dump")
    /\ UNCHANGED <<prog, argv, trainVars, predictVars, decoderVars>>

\* model.train(train_reader, reg=..., epochs=..., shuffle=...)
Train ==
    /\ prog = "train" /\ pc = "train"
    /\ \/ \E ds \in Datasets, k \in 1..NumWeights :
            /\ model' = [model EXCEPT !.dataset = ds, !.w = k]
            /\ log' = Append(Append(log, "train_call"), "train_ret")
            /\ Goto(IF options.stats THEN "describe" ELSE "dump")
       \/ /\ log' = Append(Append(log, "train_call"), "train_raised")
          /\ Raise("IOError")
          /\ UNCHANGED model
    /\ UNCHANGED <<prog, argv, trainVars, predictVars, decoderVars>>

\* print "_" * 80; print " Stats\n"; model.describe(k=40)
Describe ==
    /\ prog = "train" /\ pc = "describe"
    /\ log' = Append(log, "describe")
    /\ Goto("avg_nnz")
    /\ UNCHANGED <<prog, argv, model, trainVars, predictVars, decoderVars>>

\* "%.4f" % x for the rational x = num / den, as a number of 1/10000
Format4(num, den) == (2 * 10000 * num + den) \div (2 * den)

\* the loop summing instance.shape[0], and print "avg. nnz: %.4f" % (float(nnz) / n)
AvgNnz ==
    /\ prog = "train" /\ pc = "avg_nnz"
    /\ LET nnz == SumSeq(model.dataset)
           n == Len(model.dataset)
       IN  IF n = 0
           THEN /\ Raise("ZeroDivisionError")
                /\ UNCHANGED <<report, log>>
           ELSE /\ report' = Append(report, Format4(nnz, n))
                /\ log' = Append(log, "avg_nnz")
                /\ Goto("dump")
    /\ UNCHANGED <<prog, argv, options, fd, hd, train_reader, aso_model, loaded_aso,
                   heap, model, predictVars, decoderVars>>

\* compressed_dump(f_model, model), and the return of train()
Dump ==
    /\ prog = "train" /\ pc = "dump"
    /\ \/ /\ log' = Append(log, "dump")
          /\ pc' = "done"
          /\ exitStatus' = 0
          /\ UNCHANGED exc
       \/ /\ log' = Append(log, "dump_failed")
          /\ Raise("IOError")
    /\ UNCHANGED <<prog, argv, model, trainVars, predictVars, decoderVars>>

TrainNext ==
    \/ TrainParseArgs \/ ImportFeatureModule \/ MakeTrainReader \/ LoadAsoModel
    \/ CreateAsoTagger \/ CheckUseEph \/ CheckLang
    \/ BindV \/ BindT \/ BindUseEph \/ BindMinc \/ BindFidxMap \/ BindTidxMap
    \/ BindTagMap \/ SetUseAso \/ SetAsoModel
    \/ CreateTagger \/ FeatureExtraction \/ Train \/ Describe \/ AvgNnz \/ Dump

TrainOptions ==
    [feature_module : FeatureModules, minc : Mincs, lang : Langs, stats : BOOLEAN,
     use_eph : BOOLEAN, aso : AsoOpts]

TrainInit ==
    /\ prog = "train"
    /\ \E n \in 0..MaxTrainArgs : argv = TrainArgs(n)
    /\ options \in TrainOptions

IdleInit ==
    /\ pc = "parse"
    /\ exitStatus = Running
    /\ exc = "none"
    /\ log = <<>>
    /\ fd = "" /\ hd = ""
    /\ train_reader = NoReader
    /\ aso_model = NoAso
    /\ loaded_aso = [aso |-> NoAso, heap |-> <<>>]
    /\ heap = <<>>
    /\ model = NoModel
    /\ report = <<>>
    /\ f = "" /\ opened = <<>> /\ closed = <<>>
    /\ test_reader = NoReader
    /\ nsent = 0 /\ sentence = <<>> /\ dstate = "Idle" /\ pos = 0
    /\ history = <<>> /\ tags = <<>> /\ hdArgs = <<>>

----------------------------------------------------------------------------
(* The greedy decoder behind write_sent_predictions (specification 4.4) *)

Words == {"a", "b"}
GoldTags == {"O", "PER"}
Tokens == [word : Words, gold : GoldTags]
Sentences == SeqsUpTo(Tokens, MaxSentLen)
TagSeqs == {<<"O">>, <<"O", "PER">>, <<"PER", "O">>}

\* the tagger objects compressed_load may return in predict()
LoadableModels ==
    { [NoModel EXCEPT !.live = TRUE, !.lang = l, !.use_eph = e, !.use_aso = a,
                      !.tagseq = ts, !.w = k] :
      l \in Langs, e \in BOOLEAN, a \in BOOLEAN, ts \in TagSeqs, k \in 1..NumWeights }

TagSet(m) == {m.tagseq[k] : k \in 1..Len(m.tagseq)}

\* structural features of token i (0-based): static content only
FdFeatures(sent, i) ==
    {"w=" \o sent[i + 1].word} \cup (IF i > 0 THEN {"p=" \o sent[i].word} ELSE {})

\* history features: from the tags assigned to the positions before i
HdFeatures(hist, i) ==
    IF hist = <<>> THEN {"t-1=<s>"} ELSE {"t-1=" \o hist[Len(hist)]}

\* the ASO projection block of token i
AsoFeatures(sent, i) == {"aso=" \o sent[i + 1].word}

FeatCode(feat) ==
    CASE feat = "w=a" -> 1 [] feat = "w=b" -> 2 [] feat = "p=a" -> 3
      [] feat = "p=b" -> 4 [] feat = "t-1=<s>" -> 5 [] feat = "t-1=O" -> 6
      [] feat = "t-1=PER" -> 7 [] feat = "aso=a" -> 8 [] feat = "aso=b" -> 9
      [] OTHER -> 0

\* the weight matrix number k: row t (a tag index), column feat
Weight(k, t, feat) ==
    IF FeatCode(feat) = 0 THEN 0 ELSE ((k * t * FeatCode(feat) + FeatCode(feat) + t) % 3) - 1

RECURSIVE SumOver(_, _, _)
SumOver(k, t, feats) ==
    IF feats = {} THEN 0
    ELSE LET x == CHOOSE y \in feats : TRUE
         IN  Weight(k, t, x) + SumOver(k, t, feats \ {x})

\* the merged feature set of token i under tagger m with history hist
Features(m, sent, i, hist) ==
    FdFeatures(sent, i)
      \cup (IF m.use_eph THEN HdFeatures(hist, i) ELSE {})
      \cup (IF m.use_aso THEN AsoFeatures(sent, i) ELSE {})

Score(m, t, feats) == SumOver(m.w, t, feats)

\* an arg-max that starts from "no tag, score 0": no tag when no score exceeds 0
ArgmaxFromZero(m, feats) ==
    LET above == {t \in 1..Len(m.tagseq) : Score(m, t, feats) > 0}
    IN  IF above = {} THEN 0
        ELSE CHOOSE t \in above :
               \A u \in above : \/ Score(m, u, feats) < Score(m, t, feats)
                                \/ (Score(m, u, feats) = Score(m, t, feats) /\ t <= u)

\* index of the tag with the greatest score, the lowest index among equals
Argmax(m, feats) ==
    CHOOSE t \in 1..Len(m.tagseq) :
      \A u \in 1..Len(m.tagseq) :
        \/ Score(m, u, feats) < Score(m, t, feats)
        \/ (Score(m, u, feats) = Score(m, t, feats) /\ t <= u)

TagOf(m, t) == IF t \in 1..Len(m.tagseq) THEN m.tagseq[t] ELSE "<none>"

\* the history a sentence starts with
BoundaryHistory == <<>>

\* teacher forcing: the gold tag goes into the history
HistoryFromGold(hist, tag, token) == Append(hist, token.gold)

\* the history after committing tag for token
NextHistory(hist, tag, token) == Append(hist, tag)

\* the reader yields the next sentence, ends, or fails on a malformed line
ReadSentence ==
    /\ prog = "predict" /\ pc = "write" /\ dstate = "Idle"
    /\ \/ /\ nsent < MaxSents
          /\ \E s \in Sentences : sentence' = s
          /\ nsent' = nsent + 1
          /\ dstate' = "Ready"
          /\ pos' = 0
          /\ history' = BoundaryHistory
          /\ tags' = <<>>
          /\ hdArgs' = <<>>
          /\ Goto("write")
          /\ UNCHANGED log
       \/ /\ log' = Append(log, "write_ret")
          /\ Goto("close")
          /\ UNCHANGED decoderVars
       \/ /\ nsent < MaxSents
          /\ log' = Append(log, "write_raised")
          /\ Raise("CorpusFormatError")
          /\ UNCHANGED decoderVars
    /\ UNCHANGED <<prog, argv, model, trainVars, predictVars>>

\* Ready -> InProgress, or Done at once for a sentence without tokens
StartDecoding ==
    /\ prog = "predict" /\ pc = "write" /\ dstate = "Ready"
    /\ dstate' = IF Len(sentence) = 0 THEN "Done" ELSE "InProgress"
    /\ UNCHANGED <<prog, pc, argv, exitStatus, exc, log, model, trainVars, predictVars,
                   nsent, sentence, pos, history, tags, hdArgs>>

\* one transition: features, scores, arg-max, commit, feed back, advance
DecodeStep ==
    /\ prog = "predict" /\ pc = "write" /\ dstate = "InProgress"
    /\ pos < Len(sentence)
    /\ LET feats == Features(model, sentence, pos, history)
           tag == TagOf(model, Argmax(model, feats))
       IN  /\ tags' = Append(tags, tag)
           /\ history' = NextHistory(history, tag, sentence[pos + 1])
           /\ hdArgs' = IF model.use_eph
                        THEN Append(hdArgs, [hist |-> history, i |-> pos])
                        ELSE hdArgs
    /\ pos' = pos + 1
    /\ dstate' = IF pos + 1 = Len(sentence) THEN "Done" ELSE "InProgress"
    /\ UNCHANGED <<prog, pc, argv, exitStatus, exc, log, model, trainVars, predictVars,
                   nsent, sentence>>

\* the predicted tags of the sentence are written to f
WriteSentence ==
    /\ prog = "predict" /\ pc = "write" /\ dstate = "Done"
    /\ dstate' = "Idle"
    /\ log' = Append(log, "write")
    /\ UNCHANGED <<prog, pc, argv, exitStatus, exc, model, trainVars, predictVars,
                   nsent, sentence, pos, history, tags, hdArgs>>

DecoderNext == ReadSentence \/ StartDecoding \/ DecodeStep \/ WriteSentence

----------------------------------------------------------------------------
(* predict() *)

PredictArgs == {"-h", "--help", "-", "a.txt"}
Stdout == "<stdout>"

IsIn(x, s) == \E k \in 1..Len(s) : s[k] = x

\* if "--help" in argv or "-h" in argv: usage(); sys.exit(-2)
PredictCheckHelp ==
    /\ prog = "predict" /\ pc = "parse"
    /\ IF IsIn("--help", argv) \/ IsIn("-h", argv)
       THEN Exit(ExitStatusOf(UsageExitCode))
       ELSE Goto("nargs")
    /\ UNCHANGED <<prog, argv, log, model, trainVars, predictVars, decoderVars>>

\* if len(argv) < 3: usage(); sys.exit(-2)
PredictCheckAtLeast ==
    /\ prog = "predict" /\ pc = "nargs"
    /\ IF Len(argv) < 3 THEN Exit(ExitStatusOf(UsageExitCode)) ELSE Goto("load")
    /\ UNCHANGED <<prog, argv, log, model, trainVars, predictVars, decoderVars>>

\* if len(argv) != 3: usage(); sys.exit(-2)
PredictCheckArgs ==
    /\ prog = "predict" /\ pc = "nargs"
    /\ IF Len(argv) # 3 THEN Exit(ExitStatusOf(UsageExitCode)) ELSE Goto("load")
    /\ UNCHANGED <<prog, argv, log, model, trainVars, predictVars, decoderVars>>

\* a failed compressed_load is tried again
LoadTaggerRetrying ==
    /\ prog = "predict" /\ pc = "load"
    /\ \/ \E m \in LoadableModels :
            /\ model' = m
            /\ log' = Append(log, "load_model")
            /\ Goto("test_reader")
       \/ /\ log' = Append(log, "load_model_failed")
          /\ Goto("load")
          /\ UNCHANGED model
    /\ UNCHANGED <<prog, argv, trainVars, predictVars, decoderVars>>

\* model = compressed_load(argv[0])
LoadTagger ==
    /\ prog = "predict" /\ pc = "load"
    /\ \/ \E m \in LoadableModels :
            /\ model' = m
            /\ log' = Append(log, "load_model")
            /\ Goto("test_reader")
       \/ /\ log' = Append(log, "load_model_failed")
          /\ Raise("IOError")
          /\ UNCHANGED model
    /\ UNCHANGED <<prog, argv, trainVars, predictVars, decoderVars>>

\* test_reader = conll.Conll03Reader(argv[1], model.lang)
MakeTestReader ==
    /\ prog = "predict" /\ pc = "test_reader"
    /\ test_reader' = [live |-> TRUE, file |-> argv[2], lang |-> model.lang]
    /\ log' = Append(log, "test_reader")
    /\ Goto("open")
    /\ UNCHANGED <<prog, argv, model, trainVars, f, opened, closed, decoderVars>>

\* if argv[2] != "-": f = open(argv[2], "w+") else: f = sys.stdout
OpenOutput ==
    /\ prog = "predict" /\ pc = "open"
    /\ IF argv[3] # "-"
       THEN \/ /\ f' = argv[3]
               /\ opened' = Append(opened, argv[3])
               /\ log' = Append(log, "open")
               /\ Goto("write")
            \/ /\ log' = Append(log, "open_failed")
               /\ Raise("IOError")
               /\ UNCHANGED <<f, opened>>
       ELSE /\ f' = Stdout
            /\ Goto("write")
            /\ UNCHANGED <<opened, log>>
    /\ UNCHANGED <<prog, argv, model, trainVars, closed, test_reader, decoderVars>>

\* test_reader.write_sent_predictions(model, f, raw=False), as one call
WritePredictions ==
    /\ prog = "predict" /\ pc = "write"
    /\ \/ /\ log' = Append(log, "write_ret")
          /\ Goto("close")
       \/ /\ log' = Append(log, "write_raised")
          /\ Raise("CorpusFormatError")
    /\ UNCHANGED <<prog, argv, model, trainVars, predictVars, decoderVars>>

\* f.close(), the timing line, and the return of predict()
CloseOutput ==
    /\ prog = "predict" /\ pc = "close"
    /\ closed' = Append(closed, f)
    /\ log' = Append(log, "close")
    /\ pc' = "done"
    /\ exitStatus' = 0
    /\ UNCHANGED <<prog, argv, exc, model, trainVars, f, opened, test_reader, decoderVars>>

PredictNext ==
    \/ PredictCheckHelp \/ PredictCheckArgs \/ LoadTagger \/ MakeTestReader
    \/ OpenOutput \/ WritePredictions \/ CloseOutput

PredictInit ==
    /\ prog = "predict"
    /\ argv \in SeqsUpTo(PredictArgs, MaxArgs)
    /\ options = [feature_module |-> "rr09", minc |-> 1, lang |-> "en", stats |-> FALSE,
                  use_eph |-> FALSE, aso |-> "<False>"]

----------------------------------------------------------------------------

Init == IdleInit /\ (TrainInit \/ PredictInit)

Next == TrainNext \/ PredictNext

Spec == Init /\ [][Next]_vars

\* predict() at its call of write_sent_predictions, writing to standard output
DecodeInit ==
    /\ prog = "predict"
    /\ pc = "write"
    /\ argv = <<"model.bin", "a.txt", "-">>
    /\ options = [feature_module |-> "rr09", minc |-> 1, lang |-> "en", stats |-> FALSE,
                  use_eph |-> FALSE, aso |-> "<False>"]
    /\ exitStatus = Running
    /\ exc = "none"
    /\ log = <<"load_model", "test_reader">>
    /\ fd = "" /\ hd = ""
    /\ train_reader = NoReader
    /\ aso_model = NoAso
    /\ loaded_aso = [aso |-> NoAso, heap |-> <<>>]
    /\ heap = <<>>
    /\ model \in LoadableModels
    /\ report = <<>>
    /\ f = Stdout /\ opened = <<>> /\ closed = <<>>
    /\ test_reader = [live |-> TRUE, file |-> argv[2], lang |-> model.lang]
    /\ nsent = 0 /\ sentence = <<>> /\ dstate = "Idle" /\ pos = 0
    /\ history = <<>> /\ tags = <<>> /\ hdArgs = <<>>

SpecDecode == DecodeInit /\ [][DecoderNext]_vars

----------------------------------------------------------------------------
(* Properties *)

Terminal == pc \in {"done", "exited", "raised"}
Called(ev) == Count(ev) + Count(ev \o "_failed")
Last(ev) == log # <<>> /\ log[Len(log)] = ev

AsoFields == {"V", "T", "use_eph", "minc", "fidx_map", "tidx_map", "tag_map",
              "use_aso", "aso_model"}
Mismatch == options.use_eph # aso_model.use_eph \/ options.lang # aso_model.lang
NoTrainingNoModelFile ==
    /\ ~Logged("train_call")
    /\ ~Logged("dump") /\ ~Logged("dump_failed")

\* C1: with an ASO model loaded, a use_eph or language mismatch ends the run
\* with Error before any attribute of the ASO model is assigned onto the
\* tagger, before train is invoked and before the model file is written; with
\* matching settings no Error is raised and training starts with use_aso set.
C1_AsoMismatchIsFatalBeforeBinding ==
    (prog = "train" /\ aso_model.live) =>
        /\ Mismatch =>
             /\ pc \in {"aso_create", "chk_eph", "chk_lang", "raised"}
             /\ pc = "raised" => exc = "Error"
             /\ model.assigned = {} /\ ~Logged("bind")
             /\ NoTrainingNoModelFile
        /\ exc = "Error" =>
             /\ Mismatch
             /\ model.assigned = {} /\ ~Logged("bind")
             /\ NoTrainingNoModelFile
        /\ ~Mismatch =>
             /\ exc # "Error"
             /\ pc = "chk_eph" => ENABLED CheckUseEph
             /\ pc = "chk_lang" => ENABLED CheckLang
             /\ (pc = "train" \/ Logged("train_call")) => model.use_aso

C1_Witness ==
    /\ prog = "train" /\ pc = "raised" /\ exc = "Error"
    /\ options.use_eph = aso_model.use_eph
    /\ options.lang # aso_model.lang
    /\ model.live

\* C2: a feature module that cannot be imported ends the run with a non-zero
\* exit status, with no corpus reader and no tagger constructed, no ASO model
\* loaded, train not invoked and no model file written.
C2_UnknownFeatureModuleIsFatal ==
    (prog = "train" /\ Logged("import_failed")) =>
        /\ Terminal
        /\ exitStatus > 0
        /\ exc = "SystemExit" => exitStatus = 254
        /\ ~train_reader.live /\ ~Logged("reader")
        /\ ~model.live /\ ~Logged("create_tagger")
        /\ ~aso_model.live /\ Called("load_aso") = 0
        /\ Called("feature_extraction") = 0
        /\ NoTrainingNoModelFile

C2_Witness ==
    /\ prog = "train" /\ Logged("import_failed")
    /\ options.feature_module = "nosuch"
    /\ pc = "exited" /\ exitStatus = 254

\* One tag per token so far, every tag a member of the tagger's TagSet, and
\* in InProgress a next step that can be taken: a token is left and the
\* arg-max over the TagSet is defined.
DecoderInvariant ==
    prog = "predict" =>
        /\ \A k \in 1..Len(tags) : tags[k] \in TagSet(model)
        /\ dstate # "Idle" => (pc = "write" /\ exc = "none")
        /\ dstate = "Ready" => (tags = <<>> /\ pos = 0)
        /\ dstate = "InProgress" =>
             /\ Len(tags) = pos /\ pos < Len(sentence)
             /\ Argmax(model, Features(model, sentence, pos, history))
                  \in 1..Len(model.tagseq)
        /\ dstate = "Done" =>
             /\ pos = Len(sentence)
             /\ Len(tags) = Len(sentence)
             /\ sentence = <<>> => tags = <<>>

\* C3: greedy decoding of any sentence, the empty one included, ends in Done
\* with one tag per token, in token order, every tag a member of the tagger's
\* TagSet; a sentence without tokens gives an empty tag sequence and no error.
\* Every step from InProgress tags the next token and moves one position on,
\* reaching Done at the last one, and Ready leads to Done at once for a
\* sentence without tokens.
C3_OneTagPerTokenFromTagSet ==
    /\ []DecoderInvariant
    /\ [][dstate = "InProgress" =>
            /\ pos' = pos + 1 /\ pos' <= Len(sentence)
            /\ SubSeq(tags', 1, pos) = tags /\ sentence' = sentence
            /\ dstate' = (IF pos' = Len(sentence) THEN "Done" ELSE "InProgress")]_vars
    /\ [][dstate = "Ready" =>
            dstate' = (IF sentence = <<>> THEN "Done" ELSE "InProgress")]_vars

C3_Witness ==
    /\ prog = "predict" /\ dstate = "Done"
    /\ Len(sentence) = 2 /\ Len(tags) = 2
    /\ tags[1] # tags[2]

\* C4: the history handed to hd at position i is the sequence of tags the
\* decoder itself emitted for the positions before i of the same sentence; it
\* is empty at a sentence boundary, is not the gold tags, and hd is used only
\* when use_eph is set.
C4_HistoryIsOwnPredictions ==
    prog = "predict" =>
        /\ dstate = "Ready" => history = <<>>
        /\ dstate \in {"Ready", "InProgress", "Done"} =>
             /\ history = tags
             /\ Len(history) = pos
        /\ \A k \in 1..Len(hdArgs) :
             /\ hdArgs[k].i = k - 1
             /\ hdArgs[k].hist = SubSeq(tags, 1, k - 1)
        /\ (model.live /\ model.use_eph /\ dstate # "Idle") => Len(hdArgs) = pos
        /\ ~model.use_eph => hdArgs = <<>>

C4_Witness ==
    /\ prog = "predict" /\ model.use_eph /\ dstate = "Done" /\ nsent = 2
    /\ Len(hdArgs) = 2
    /\ hdArgs[2].hist = <<tags[1]>>
    /\ sentence[1].gold # tags[1]

\* C5 (as stated): every run of train() creates exactly one tagger, invokes
\* train at most once, serializes at most once and only after train returned;
\* without an ASO model feature_extraction is invoked exactly once, before train.
C5_ExactlyOneTaggerInEveryRun ==
    (prog = "train" /\ Terminal) =>
        /\ Count("create_tagger") = 1
        /\ Count("train_call") <= 1
        /\ Called("dump") <= 1
        /\ Before("train_ret", "dump") /\ Before("train_ret", "dump_failed")
        /\ (Logged("create_tagger") /\ ~Truthy(options.aso)) =>
             /\ Called("feature_extraction") = 1
             /\ Before("feature_extraction", "train_call")

\* C5 (amended): every run of train() creates at most one tagger, and exactly
\* one once it is past argument parsing, the import of the feature module and
\* the loading of the ASO model; train is invoked at most once; the tagger is
\* serialized at most once, only after train has returned, never before or
\* during training; without an ASO model feature_extraction is invoked exactly
\* once and train only after it returned.
C5_OneTaggerTrainedThenSerialized ==
    prog = "train" =>
        /\ Count("create_tagger") <= 1
        /\ (Terminal /\ Logged("reader") /\ ~Logged("load_aso_failed")) =>
             Count("create_tagger") = 1
        /\ Logged("create_tagger") => model.live
        /\ Count("train_call") <= 1
        /\ Called("dump") <= 1
        /\ Before("train_ret", "dump") /\ Before("train_ret", "dump_failed")
        /\ Before("create_tagger", "train_call")
        /\ Called("feature_extraction") <= 1
        /\ (Logged("create_tagger") /\ ~Truthy(options.aso)
              /\ pc \notin {"feature_extraction"}) =>
             /\ Called("feature_extraction") = 1
             /\ Before("feature_extraction", "train_call")

C5_Witness ==
    /\ prog = "train" /\ pc = "done" /\ ~Truthy(options.aso)
    /\ log = <<"import", "reader", "create_tagger", "feature_extraction",
               "train_call", "train_ret", "dump">>

\* C6: the vocabulary, tag set and index maps assigned onto the tagger are the
\* ASO model's own objects (the same ids, no copies), and no step of train()
\* changes the ASO model or the objects it holds.
C6_AsoBoundByReferenceAndUnchanged ==
    (prog = "train" /\ aso_model.live) =>
        /\ aso_model = loaded_aso.aso
        /\ \A id \in 1..Len(loaded_aso.heap) : heap[id] = loaded_aso.heap[id]
        /\ "V" \in model.assigned => model.V = aso_model.vocabulary
        /\ "T" \in model.assigned => model.T = aso_model.tags
        /\ "fidx_map" \in model.assigned => model.fidx_map = aso_model.fidx_map
        /\ "tidx_map" \in model.assigned => model.tidx_map = aso_model.tidx_map
        /\ "tag_map" \in model.assigned => model.tag_map = aso_model.tag_map

C6_Witness ==
    /\ prog = "train" /\ pc = "train" /\ model.use_aso
    /\ model.V = aso_model.vocabulary /\ model.V # NoId
    /\ model.tag_map = aso_model.tag_map /\ model.tag_map # NoId

\* C7: loading the ASO model, loading the prediction model, opening the
\* prediction file and writing the model file are each attempted at most once
\* per run; a failure of one of them is the last thing the run does and reaches
\* the caller as an exception.
C7_NoRetryFailureEndsRun ==
    /\ Called("load_aso") <= 1
    /\ Called("load_model") <= 1
    /\ Called("open") <= 1 /\ Len(opened) <= 1
    /\ Called("dump") <= 1
    /\ \A ev \in {"load_aso_failed", "load_model_failed", "open_failed", "dump_failed"} :
         Logged(ev) =>
            /\ Last(ev)
            /\ pc = "raised" /\ exc = "IOError" /\ exitStatus = UncaughtStatus
    /\ Logged("load_aso_failed") => (NoTrainingNoModelFile /\ ~model.live)
    /\ Logged("load_model_failed") =>
         (opened = <<>> /\ f = "" /\ ~test_reader.live /\ closed = <<>>)

C7_Witness ==
    /\ prog = "predict" /\ Logged("load_model_failed") /\ pc = "raised"
    /\ argv[3] # "-"

\* C8: the tagger train is invoked on in the ASO branch has every attribute of
\* the ASO model: its vocabulary, tag set, use_eph, minc, fidx_map, tidx_map and
\* tag_map equal the ASO model's, use_aso is true, aso_model is the loaded ASO
\* model, its extractors are the ASO model's, and feature_extraction was not
\* invoked on it.
C8_AsoTaggerFullyBoundAtTrain ==
    (prog = "train" /\ Truthy(options.aso) /\ (pc = "train" \/ Logged("train_call"))) =>
        /\ model.live /\ aso_model.live
        /\ model.assigned = AsoFields
        /\ heap[model.V] = loaded_aso.heap[aso_model.vocabulary]
        /\ heap[model.T] = loaded_aso.heap[aso_model.tags]
        /\ heap[model.fidx_map] = loaded_aso.heap[aso_model.fidx_map]
        /\ heap[model.tidx_map] = loaded_aso.heap[aso_model.tidx_map]
        /\ heap[model.tag_map] = loaded_aso.heap[aso_model.tag_map]
        /\ model.use_eph = aso_model.use_eph
        /\ model.minc = aso_model.minc
        /\ model.use_aso
        /\ model.aso_model = aso_model /\ aso_model = loaded_aso.aso
        /\ model.fd = aso_model.fd /\ model.hd = aso_model.hd
        /\ model.lang = aso_model.lang
        /\ Called("feature_extraction") = 0

C8_Witness ==
    /\ prog = "train" /\ Truthy(options.aso) /\ Logged("train_ret")
    /\ options.minc # model.minc
    /\ fd # model.fd

\* C9: the stats report is printed exactly when the stats flag is set and only
\* after train returned, and every run in which train returned serializes the
\* model, with or without stats.
C9_StatsDoNotDecideSerialization ==
    prog = "train" =>
        /\ Logged("describe") => (options.stats /\ Before("train_ret", "describe"))
        /\ report # <<>> => (options.stats /\ Logged("describe"))
        /\ (Terminal /\ Logged("train_ret")) =>
             /\ Called("dump") = 1
             /\ options.stats <=> (Logged("describe") /\ Len(report) = 1)

\* C10: predict() loads a model and writes predictions only with exactly three
\* arguments and no help flag, and otherwise exits non-zero with nothing loaded
\* or opened; the model is loaded first, the test corpus is read under the
\* loaded model's language, the predictions go to standard output for "-" (no
\* file opened) and to the file PRED_FILE otherwise, and the output is closed
\* once, after the predictions were written.
HelpAsked == IsIn("--help", argv) \/ IsIn("-h", argv)

C10_PredictArgumentsAndOutput ==
    prog = "predict" =>
        /\ (log # <<>> \/ model.live \/ opened # <<>> \/ f # "") =>
             (Len(argv) = 3 /\ ~HelpAsked)
        /\ ((Len(argv) # 3 \/ HelpAsked) /\ pc # "parse" /\ pc # "nargs") =>
             /\ pc = "exited" /\ exitStatus > 0
             /\ log = <<>> /\ ~model.live /\ opened = <<>> /\ closed = <<>>
        /\ (Len(argv) = 3 /\ ~HelpAsked) => pc # "exited"
        /\ test_reader.live =>
             /\ model.live /\ test_reader.lang = model.lang
             /\ test_reader.file = argv[2]
        /\ Before("load_model", "test_reader") /\ Before("load_model", "open")
        /\ Before("test_reader", "write_ret") /\ Before("test_reader", "write_raised")
        /\ Before("write_ret", "close") /\ ~(Logged("write_raised") /\ closed # <<>>)
        /\ (Logged("write_ret") \/ Logged("write_raised")) =>
             f = (IF argv[3] = "-" THEN Stdout ELSE argv[3])
        /\ opened # <<>> => (argv[3] # "-" /\ opened = <<argv[3]>> /\ f = argv[3])
        /\ f = Stdout => (argv[3] = "-" /\ opened = <<>>)
        /\ pc \in {"write", "close", "done"} => f = (IF argv[3] = "-" THEN Stdout ELSE argv[3])
        /\ Len(closed) <= 1
        /\ closed # <<>> => (closed = <<f>> /\ Logged("write_ret"))
        /\ pc = "done" => (Len(closed) = 1 /\ Last("close") /\ exitStatus = 0)

C10_Witness ==
    /\ prog = "predict" /\ pc = "done"
    /\ argv[3] = "-" /\ opened = <<>> /\ closed = <<Stdout>>
    /\ Logged("write_ret")

=============================================================================
